---- MODULE Spec2Model ----
(***************************************************************************)
(* Model of the 4-zone irrigation controller of Smart_Farming_V1.ino:     *)
(* setup(), loop() (handleSerial() followed by one pass over the zones),  *)
(* and the helpers they call (setRelay, readMedianAdc, sortArray,         *)
(* adcToPercent, cooldownPassed, wateringAllowedNow, updateFault).        *)
(*                                                                         *)
(* Time.  millis() is a free-running uint32_t millisecond counter.  The   *)
(* model counts time in coarse units and narrows the counter to the period *)
(* TimeWrap, so that its rollover is reachable; every uint32_t difference  *)
(* of the source is taken modulo TimeWrap (Elapsed).  The duration         *)
(* settings of the USER CONFIG block are given small values that keep      *)
(* their order: setup delay <= SAMPLE_INTERVAL_MS < MIN_ON_TIME_MS <       *)
(* MAX_ON_TIME_MS < COOLDOWN_MS < TimeWrap.  Time passes in the Tick       *)
(* action; the counter runs at most MaxLoopTime units ahead of the value   *)
(* loop() last captured in `now`.                                          *)
(***************************************************************************)
EXTENDS Integers, Sequences, FiniteSets, TLC

VARIABLES
    clock,      \* millis()
    pc,         \* position of the sketch: "boot", "serial" (top of loop()), "zones" (inside the for loop)
    loopI,      \* loop()'s index i while pc = "zones"
    now,        \* loop()'s local `now`
    zone,       \* ZoneState zone[ZONES]
    DRY_ADC,    \* int DRY_ADC[ZONES]
    WET_ADC,    \* int WET_ADC[ZONES]
    relayPin,   \* level last written to RELAY_PINS[i]
    last,       \* what the latest step did (observation only)
    everOn,     \* whether setRelay(i, true) was ever called (observation only)
    live,       \* the zone whose sensor and calibration vary
    probe,      \* arguments of a helper called on its own (ProbeSpec*)
    probeOut    \* its result

vars == <<clock, pc, loopI, now, zone, DRY_ADC, WET_ADC, relayPin, last, everOn, live, probe, probeOut>>

----------------------------------------------------------------------------
(* Bounds of the model *)

\* period of the millis() counter (2^32 in the sketch)
TimeWrap == 6
\* longest time between two captures of `now` by loop()
MaxLoopTime == 1
\* a reading that would take a run counter above MaxRun is not explored
MaxRun == 2

ZONES == 4
Zones == 0 .. (ZONES - 1)
\* the zones that can be the varying one
LiveChoices == {0}

----------------------------------------------------------------------------
(* USER CONFIG *)

RELAY_ACTIVE_LOW == TRUE
DRY_ADC_INIT == 3200
WET_ADC_INIT == 1400
ON_THRESHOLD == 35
OFF_THRESHOLD == 45
\* the four times below keep the sketch's order (sample < min on < max on <
\* cooldown) on the model's time scale; the sketch has 10 s, 30 s, 120 s, 1 s
MIN_ON_TIME_MS == 2
MAX_ON_TIME_MS == 3
COOLDOWN_MS == 4
SAMPLE_INTERVAL_MS == 1
MEDIAN_SAMPLES == 9
\* 30 in the sketch
FAULT_COUNT_LIMIT == 2
ADC_NEAR_MIN == 20
ADC_NEAR_MAX == 4090
USE_TIME_WINDOW == FALSE
ALLOWED_START_HOUR_1 == 5
ALLOWED_END_HOUR_1 == 9
ALLOWED_START_HOUR_2 == 17
ALLOWED_END_HOUR_2 == 21
\* millis() per hour of the demo clock (60000UL in the sketch)
DEMO_HOUR_MS == 1
\* delay(200) of setup()
SETUP_DELAY == 1

LONG_MAX == 2147483647

----------------------------------------------------------------------------
(* Arithmetic of the source's types *)

\* a - b in uint32_t
Elapsed(a, b) == (a - b + TimeWrap) % TimeWrap

Abs(x) == IF x < 0 THEN -x ELSE x

\* C integer division: truncates toward zero
TruncDiv(a, b) ==
    IF (a >= 0) = (b > 0) THEN Abs(a) \div Abs(b) ELSE -(Abs(a) \div Abs(b))

----------------------------------------------------------------------------
(* ZoneState and the helpers *)

ZoneInit ==
    [ watering |-> FALSE, lastSampleMs |-> 0,
      wateringStartMs |-> 0, lastWateringEndMs |-> 0,
      faultMinCount |-> 0, faultMaxCount |-> 0, sensorFault |-> FALSE,
      lastMoistPercent |-> 0, lastAdc |-> 0 ]

\* the level digitalWrite() receives in setRelay
RelayLevel(on) ==
    IF RELAY_ACTIVE_LOW THEN (IF on THEN "LOW" ELSE "HIGH")
                        ELSE (IF on THEN "HIGH" ELSE "LOW")

\* setRelay(i, on) on zone record z, with ms the value millis() returns in it
setRelay(z, on, ms) ==
    IF on THEN [z EXCEPT !.watering = TRUE, !.wateringStartMs = ms]
          ELSE [z EXCEPT !.watering = FALSE, !.lastWateringEndMs = ms]

\* cooldownPassed(i), with ms the value millis() returns in it
cooldownPassed(z, ms) ==
    IF z.lastWateringEndMs = 0 THEN TRUE
    ELSE Elapsed(ms, z.lastWateringEndMs) >= COOLDOWN_MS

\* the window test of wateringAllowedNow for a given configuration
InTimeWindow(ms) ==
    LET hour == (ms \div DEMO_HOUR_MS) % 24
        in1 == hour >= ALLOWED_START_HOUR_1 /\ hour <= ALLOWED_END_HOUR_1
        in2 == hour >= ALLOWED_START_HOUR_2 /\ hour <= ALLOWED_END_HOUR_2
    IN  in1 \/ in2

wateringAllowedNow(ms) ==
    IF ~USE_TIME_WINDOW THEN TRUE ELSE InTimeWindow(ms)

updateFault_AutoClear(z, adc) ==
    LET minC == IF adc <= ADC_NEAR_MIN THEN z.faultMinCount + 1 ELSE 0
        maxC == IF adc >= ADC_NEAR_MAX THEN z.faultMaxCount + 1 ELSE 0
    IN  [z EXCEPT !.faultMinCount = minC,
                  !.faultMaxCount = maxC,
                  !.sensorFault = minC >= FAULT_COUNT_LIMIT \/ maxC >= FAULT_COUNT_LIMIT]

updateFault_NoReset(z, adc) ==
    LET minC == IF adc <= ADC_NEAR_MIN THEN z.faultMinCount + 1 ELSE z.faultMinCount
        maxC == IF adc >= ADC_NEAR_MAX THEN z.faultMaxCount + 1 ELSE z.faultMaxCount
    IN  [z EXCEPT !.faultMinCount = minC,
                  !.faultMaxCount = maxC,
                  !.sensorFault = IF minC >= FAULT_COUNT_LIMIT \/ maxC >= FAULT_COUNT_LIMIT
                                  THEN TRUE ELSE z.sensorFault]

\* updateFault(i, adc)
updateFault(z, adc) ==
    LET minC == IF adc <= ADC_NEAR_MIN THEN z.faultMinCount + 1 ELSE 0
        maxC == IF adc >= ADC_NEAR_MAX THEN z.faultMaxCount + 1 ELSE 0
    IN  [z EXCEPT !.faultMinCount = minC,
                  !.faultMaxCount = maxC,
                  !.sensorFault = IF minC >= FAULT_COUNT_LIMIT \/ maxC >= FAULT_COUNT_LIMIT
                                  THEN TRUE ELSE z.sensorFault]


\* sortArray(arr, n): the exchange sort of the source, i and j as in its loops
\* the inner loop of sortArray for one i: j from its value up to n - 1
RECURSIVE sortInner(_, _, _, _)
sortInner(arr, n, i, j) ==
    IF j >= n THEN arr
    ELSE IF arr[j + 1] < arr[i + 1]
         THEN sortInner([arr EXCEPT ![i + 1] = arr[j + 1], ![j + 1] = arr[i + 1]], n, i, j + 1)
         ELSE sortInner(arr, n, i, j + 1)

\* the outer loop of sortArray: i from its value up to n - 1
RECURSIVE sortFrom(_, _, _)
sortFrom(arr, n, i) ==
    IF i >= n THEN arr
    ELSE sortFrom(sortInner(arr, n, i, i + 1), n, i + 1)

sortArray_SkipFirst(arr, n) == sortFrom(arr, n, 1)

sortArray(arr, n) == sortFrom(arr, n, 0)

\* the sample count readMedianAdc works with (uint8_t samples)
EffectiveSamples(samples) ==
    LET s1 == IF samples < 3 THEN 3 ELSE samples
        s2 == IF s1 % 2 = 0 THEN (s1 + 1) % 256 ELSE s1
    IN  IF s2 > 15 THEN 15 ELSE s2

\* readMedianAdc(pin, samples); stream[k] is what the k-th analogRead(pin) returns.
\* value: the result; reads: the number of analogRead calls made
readMedianAdc(stream, samples) ==
    LET n == EffectiveSamples(samples)
        vals == [k \in 1 .. n |-> stream[k]]
        sorted == sortArray(vals, n)
    IN  [value |-> sorted[(n \div 2) + 1], reads |-> n]

\* what the wrapped product of an overflowing long multiplication can leave
\* in pct: any long (one value per side of each clamp, and values in between)
OverflowOutcomes == {-LONG_MAX, -1, 0, 40, 100, 101, LONG_MAX}

\* long map(long x, long in_min, long in_max, long out_min, long out_max) of the
\* Arduino core: (x - in_min) * (out_max - out_min) / (in_max - in_min) + out_min
\* in 32-bit long; the set of values it can return
map(x, in_min, in_max, out_min, out_max) ==
    LET run == in_max - in_min
        rise == out_max - out_min
        delta == x - in_min
    IN  IF run = 0 THEN {-1}
        ELSE IF rise # 0 /\ Abs(delta) > LONG_MAX \div Abs(rise) THEN OverflowOutcomes
        ELSE {TruncDiv(delta * rise, run) + out_min}

ClampPercent_NoUpper(pct) == (IF pct < 0 THEN 0 ELSE pct) % 256

\* the two clamps of adcToPercent and its cast to uint8_t
ClampPercent(pct) ==
    LET p1 == IF pct < 0 THEN 0 ELSE pct
        p2 == IF p1 > 100 THEN 100 ELSE p1
    IN  p2 % 256

adcToPercent_Swapped(adc, dry, wet) ==
    IF dry = wet THEN {0}
    ELSE {ClampPercent(pct) : pct \in map(adc, wet, dry, 0, 100)}

\* adcToPercent(adc, dry, wet): the set of values it can return
adcToPercent(adc, dry, wet) ==
    IF dry = wet THEN {0}
    ELSE {ClampPercent(pct) : pct \in map(adc, dry, wet, 0, 100)}

----------------------------------------------------------------------------
(* Arduino String, as a sequence of characters, indices from 0 as in the source *)

LowerCase == <<"a","b","c","d","e","f","g","h","i","j","k","l","m",
               "n","o","p","q","r","s","t","u","v","w","x","y","z">>
UpperCase == <<"A","B","C","D","E","F","G","H","I","J","K","L","M",
               "N","O","P","Q","R","S","T","U","V","W","X","Y","Z">>
Digits == <<"0","1","2","3","4","5","6","7","8","9">>

IsSpace(c) == c \in {" ", "\t", "\n", "\r"}

SetMin(S) == CHOOSE x \in S : \A y \in S : x <= y
SetMax(S) == CHOOSE x \in S : \A y \in S : x >= y

\* String::trim
trim(s) ==
    LET keep == {k \in 1 .. Len(s) : ~IsSpace(s[k])}
    IN  IF keep = {} THEN <<>> ELSE SubSeq(s, SetMin(keep), SetMax(keep))

UpperChar(c) ==
    IF \E k \in 1 .. 26 : LowerCase[k] = c
    THEN UpperCase[CHOOSE k \in 1 .. 26 : LowerCase[k] = c]
    ELSE c

\* String::toUpperCase
toUpperCase(s) == [k \in 1 .. Len(s) |-> UpperChar(s[k])]

\* String::indexOf(pat, from): first position >= from, or -1
indexOf(s, pat, from) ==
    LET hits == {k \in from .. (Len(s) - Len(pat)) : SubSeq(s, k + 1, k + Len(pat)) = pat}
    IN  IF hits = {} THEN -1 ELSE SetMin(hits)

\* String::lastIndexOf(pat)
lastIndexOf(s, pat) ==
    LET hits == {k \in 0 .. (Len(s) - Len(pat)) : SubSeq(s, k + 1, k + Len(pat)) = pat}
    IN  IF hits = {} THEN -1 ELSE SetMax(hits)

\* String::startsWith
startsWith(s, pat) == Len(s) >= Len(pat) /\ SubSeq(s, 1, Len(pat)) = pat

\* String::substring(left, right): characters left .. right-1
substring(s, left, right) ==
    LET l == IF left > right THEN right ELSE left
        r0 == IF left > right THEN left ELSE right
        r == IF r0 > Len(s) THEN Len(s) ELSE r0
    IN  IF l >= Len(s) THEN <<>> ELSE SubSeq(s, l + 1, r)

DigitValue(c) == (CHOOSE k \in 1 .. 10 : Digits[k] = c) - 1
IsDigit(c) == \E k \in 1 .. 10 : Digits[k] = c

RECURSIVE digitsValue(_, _, _)
digitsValue(s, k, acc) ==
    IF k > Len(s) \/ ~IsDigit(s[k]) THEN acc
    ELSE digitsValue(s, k + 1, acc * 10 + DigitValue(s[k]))

\* String::toInt (atol): leading blanks, an optional sign, then digits; 0 without digits
toInt(s) ==
    LET body == {k \in 1 .. Len(s) : ~IsSpace(s[k])}
        k0 == IF body = {} THEN Len(s) + 1 ELSE SetMin(body)
        neg == k0 <= Len(s) /\ s[k0] = "-"
        k1 == IF k0 <= Len(s) /\ s[k0] \in {"-", "+"} THEN k0 + 1 ELSE k0
        v == digitsValue(s, k1, 0)
    IN  IF neg THEN -v ELSE v

L_STATUS == <<"S", "T", "A", "T", "U", "S">>
L_SHOWCAL == <<"S", "H", "O", "W", "C", "A", "L">>
P_CAL == <<"C", "A", "L", " ">>
P_Z == <<"Z", " ">>
P_SP == <<" ">>
P_DRY == <<" ", "D", "R", "Y", " ">>
P_WET == <<" ", "W", "E", "T", " ">>

\* handleSerial() once Serial.available() holds, on the line readStringUntil
\* returns: out is the response printed; set, i, val the assignment made
\* (set = "DRY": DRY_ADC[i] = val; "WET": WET_ADC[i] = val; "": none)
handleLine(line) ==
    LET cmd == toUpperCase(trim(line))
        none(o) == [out |-> o, set |-> "", i |-> 0, val |-> 0]
    IN
    IF cmd = L_STATUS THEN none("STATUS")
    ELSE IF cmd = L_SHOWCAL THEN none("SHOWCAL")
    ELSE IF startsWith(cmd, P_CAL) THEN
        LET zPos == indexOf(cmd, P_Z, 0) IN
        IF zPos < 0 THEN none("CAL format error")
        ELSE
        LET afterZ == zPos + 2
            sp1 == indexOf(cmd, P_SP, afterZ)
        IN
        IF sp1 < 0 THEN none("")
        ELSE
        LET zoneIndex == toInt(substring(cmd, afterZ, sp1)) IN
        IF zoneIndex < 1 \/ zoneIndex > ZONES THEN none("Zone index must be 1-4")
        ELSE
        LET i == zoneIndex - 1
            isDry == indexOf(cmd, P_DRY, 0) >= 0
            isWet == indexOf(cmd, P_WET, 0) >= 0
            lastSpace == lastIndexOf(cmd, P_SP)
        IN
        IF lastSpace < 0 THEN none("")
        ELSE
        LET val == toInt(substring(cmd, lastSpace + 1, Len(cmd))) IN
        IF val <= 0 THEN none("Invalid value")
        ELSE IF isDry THEN [out |-> "Set DRY_ADC", set |-> "DRY", i |-> i, val |-> val]
        ELSE IF isWet THEN [out |-> "Set WET_ADC", set |-> "WET", i |-> i, val |-> val]
        ELSE none("Specify DRY or WET")
    ELSE none("Unknown command")

----------------------------------------------------------------------------
(* Inputs *)

\* raw readings analogRead can return: stuck near 0, wet soil, dry soil,
\* stuck near 4095
AdcVals == {10, 1400, 3200, 4095}

\* the readings of one sampling: level a, with spikes b in the first four
Burst(a, b) == [k \in 1 .. 15 |-> IF k <= 4 THEN b ELSE a]
VaryingBursts == {Burst(a, b) : a \in AdcVals, b \in {10, 4095}} \cup {Burst(a, a) : a \in AdcVals}
SteadyBursts == {Burst(WET_ADC_INIT, WET_ADC_INIT)}

\* what readMedianAdc(MOISTURE_PINS[i], MEDIAN_SAMPLES) returns for each burst
MedianOfBurst == [b \in VaryingBursts \cup SteadyBursts |-> readMedianAdc(b, MEDIAN_SAMPLES).value]

\* lines the serial monitor can send; the CAL lines address zone n (1-based)
CalLine(pre, n, post) == pre \o <<Digits[n + 1]>> \o post
SerialLines(n) == {
    <<"S", "T", "A", "T", "U", "S">>,
    <<"s", "h", "o", "w", "c", "a", "l">>,
    CalLine(<<"c", "a", "l", " ", "z", " ">>, n, <<" ", "w", "e", "t", " ", "3", "2", "0", "0">>),
    CalLine(<<"C", "A", "L", " ", "Z", " ">>, n, <<" ", "W", "E", "T", " ", "5", "1", "8", "8">>),
    CalLine(<<" ", "C", "A", "L", " ", "Z", " ">>, n, <<" ", "W", "E", "T", " ", "1", "4", "0", "0", "\r">>),
    CalLine(<<"C", "A", "L", " ", "Z", " ">>, n, <<" ", "D", "R", "Y", " ", "3", "2", "0", "0">>),
    CalLine(<<"C", "A", "L", " ", "Z", " ">>, n, <<" ", "D", "R", "Y", " ", "0">>),
    CalLine(<<"C", "A", "L", " ", "Z", " ">>, n, <<" ", "H", "O", "T", " ", "1", "4", "0", "0">>),
    CalLine(<<"C", "A", "L", " ", "Z", " ">>, n, <<>>),
    <<"C", "A", "L", " ", "Z", " ", "9", " ", "D", "R", "Y", " ", "1", "4", "0", "0">>,
    <<"C", "A", "L", " ", "1", " ", "D", "R", "Y", " ", "1", "4", "0", "0">>,
    <<"H", "E", "L", "L", "O">>
    }

\* v > 0 as the serial monitor sends it, in decimal
RECURSIVE Decimal(_)
Decimal(v) ==
    IF v < 10 THEN <<Digits[v + 1]>>
    ELSE Decimal(v \div 10) \o <<Digits[(v % 10) + 1]>>

W_CAL_Z == <<"C", "A", "L", " ", "Z", " ">>
W_DRY == <<"D", "R", "Y">>
W_WET == <<"W", "E", "T">>
ToLower(s) ==
    [k \in 1 .. Len(s) |->
        IF \E j \in 1 .. 26 : UpperCase[j] = s[k]
        THEN LowerCase[CHOOSE j \in 1 .. 26 : UpperCase[j] = s[k]]
        ELSE s[k]]

\* the values a CAL command is sent with
CalValues == {1, 1400, 3200, 5188, 65535}

\* a command of the documented grammar, CAL Z <n> DRY|WET <v>, as typed:
\* upper case, or lower case between a blank and a carriage return
CalText(word, n, v) == W_CAL_Z \o Decimal(n) \o <<" ">> \o word \o <<" ">> \o Decimal(v)
ValidCommands(n) ==
    {[form |-> f, n |-> n, v |-> v,
      line |-> IF lower THEN <<" ">> \o ToLower(CalText(IF f = "DRY" THEN W_DRY ELSE W_WET, n, v)) \o <<"\r">>
                        ELSE CalText(IF f = "DRY" THEN W_DRY ELSE W_WET, n, v)] :
        f \in {"DRY", "WET"}, v \in CalValues, lower \in BOOLEAN}

\* commands outside the grammar, by what is wrong with them
BadCommands(n) ==
    {[form |-> "BAD", n |-> n, v |-> 0, line |-> l] : l \in {
        \* unknown keyword
        <<"H", "E", "L", "L", "O">>,
        <<"S", "T", "A", "T", "U", "S", "S">>,
        <<"C", "A", "L">>,
        \* no zone marker
        <<"C", "A", "L", " ">> \o Decimal(n) \o <<" ", "D", "R", "Y", " ", "1", "4", "0", "0">>,
        \* a field missing: all after the index, the value, the index
        W_CAL_Z \o Decimal(n),
        W_CAL_Z \o Decimal(n) \o <<" ", "D", "R", "Y">>,
        W_CAL_Z \o <<"D", "R", "Y", " ", "1", "4", "0", "0">>,
        \* zone index outside 1 .. ZONES
        CalText(W_DRY, 0, 1400),
        CalText(W_WET, ZONES + 1, 1400),
        \* value not a positive integer
        W_CAL_Z \o Decimal(n) \o <<" ", "D", "R", "Y", " ", "0">>,
        W_CAL_Z \o Decimal(n) \o <<" ", "W", "E", "T", " ", "-", "5">>,
        W_CAL_Z \o Decimal(n) \o <<" ", "D", "R", "Y", " ", "A", "B", "C">>,
        W_CAL_Z \o Decimal(n) \o <<" ", "D", "R", "Y", " ", "1", "2", "A", "B">>,
        \* neither DRY nor WET
        W_CAL_Z \o Decimal(n) \o <<" ", "H", "O", "T", " ", "1", "4", "0", "0">>,
        W_CAL_Z \o Decimal(n) \o <<" ", "1", "4", "0", "0">>
        }}

InfoCommands(n) ==
    {[form |-> "STATUS", n |-> n, v |-> 0, line |-> <<"s", "t", "a", "t", "u", "s", "\r">>],
     [form |-> "SHOWCAL", n |-> n, v |-> 0, line |-> L_SHOWCAL]}

ProbeCommands(n) == ValidCommands(n) \cup BadCommands(n) \cup InfoCommands(n)

\* handleLine on every line
ParsedLines ==
    [n \in 1 .. ZONES |->
        [l \in SerialLines(n) \cup {c.line : c \in ProbeCommands(n)} |-> handleLine(l)]]

\* the observation a step leaves in `last`
Step(op, i, ev) == [op |-> op, zone |-> i, ev |-> ev]

----------------------------------------------------------------------------
(* The body of loop()'s for loop on zone record z (lines 301-356).         *)
(* pin: the relay pin's level; nowv: `now`; ms: the value millis() returns *)
(* after the sampling (in cooldownPassed, wateringAllowedNow, setRelay).   *)
(* A result is the new record z, the pin's level and ev, the branch taken. *)

RelayOff(z, pin, ms, ev) == [z |-> setRelay(z, FALSE, ms), pin |-> RelayLevel(FALSE), ev |-> ev]
RelayOn(z, pin, ms, ev) == [z |-> setRelay(z, TRUE, ms), pin |-> RelayLevel(TRUE), ev |-> ev]
RelayKeep(z, pin, ev) == [z |-> z, pin |-> pin, ev |-> ev]

faultStop_Forgets(z, pin, ms) == RelayKeep(z, pin, "fault")

\* if (zone[i].sensorFault) { if (zone[i].watering) setRelay(i, false); continue; }
faultStop(z, pin, ms) ==
    IF z.watering THEN RelayOff(z, pin, ms, "fault_stop") ELSE RelayKeep(z, pin, "fault")

maxOnReached_Strict(z, nowv) ==
    z.watering /\ Elapsed(nowv, z.wateringStartMs) > MAX_ON_TIME_MS

maxOnReached_UnlessDry(z, nowv) ==
    /\ z.watering /\ Elapsed(nowv, z.wateringStartMs) >= MAX_ON_TIME_MS
    /\ z.lastMoistPercent >= ON_THRESHOLD

\* zone[i].watering and now - wateringStartMs >= MAX_ON_TIME_MS
maxOnReached(z, nowv) ==
    z.watering /\ Elapsed(nowv, z.wateringStartMs) >= MAX_ON_TIME_MS

shouldTurnOn_IgnoresCooldown(z, pct, ms) ==
    pct < ON_THRESHOLD /\ wateringAllowedNow(ms)

\* moistPct < ON_THRESHOLD[i] && cooldownPassed(i) && wateringAllowedNow()
shouldTurnOn(z, pct, ms) ==
    pct < ON_THRESHOLD /\ cooldownPassed(z, ms) /\ wateringAllowedNow(ms)

shouldTurnOff_NoMinOn(z, pct, nowv) == pct > OFF_THRESHOLD

shouldTurnOff_AtThreshold(z, pct, nowv) ==
    Elapsed(nowv, z.wateringStartMs) >= MIN_ON_TIME_MS /\ pct >= OFF_THRESHOLD

\* onTime >= MIN_ON_TIME_MS and moistPct > OFF_THRESHOLD[i]
shouldTurnOff(z, pct, nowv) ==
    Elapsed(nowv, z.wateringStartMs) >= MIN_ON_TIME_MS /\ pct > OFF_THRESHOLD

sampleDue_Always(z, nowv) == TRUE

\* the zone is not skipped: !(now - zone[i].lastSampleMs < SAMPLE_INTERVAL_MS)
sampleDue(z, nowv) == ~(Elapsed(nowv, z.lastSampleMs) < SAMPLE_INTERVAL_MS)

\* the max-time stop without its `continue`
zoneStep_NoContinue(z, pin, adc, pct, nowv, ms) ==
    LET z1 == [z EXCEPT !.lastSampleMs = nowv, !.lastAdc = adc]
        z2 == updateFault(z1, adc)
        z3 == [z2 EXCEPT !.lastMoistPercent = pct]
        z4 == setRelay(z3, FALSE, ms)
    IN
    IF z2.sensorFault THEN faultStop(z2, pin, ms)
    ELSE IF maxOnReached(z3, nowv) THEN
        IF shouldTurnOn(z4, pct, ms)
        THEN [z |-> setRelay(z4, TRUE, ms), pin |-> RelayLevel(TRUE), ev |-> "max_stop"]
        ELSE RelayOff(z3, pin, ms, "max_stop")
    ELSE IF ~z3.watering THEN
        IF shouldTurnOn(z3, pct, ms)
        THEN RelayOn(z3, pin, ms, "water_on") ELSE RelayKeep(z3, pin, "idle")
    ELSE
        IF shouldTurnOff(z3, pct, nowv)
        THEN RelayOff(z3, pin, ms, "water_off") ELSE RelayKeep(z3, pin, "hold")

\* the percentage stored before the fault test
zoneStep_PctBeforeFault(z, pin, adc, pct, nowv, ms) ==
    LET z1 == [z EXCEPT !.lastSampleMs = nowv, !.lastAdc = adc]
        z2 == updateFault(z1, adc)
        z3 == [z2 EXCEPT !.lastMoistPercent = pct]
    IN
    IF z3.sensorFault THEN faultStop(z3, pin, ms)
    ELSE IF maxOnReached(z3, nowv) THEN RelayOff(z3, pin, ms, "max_stop")
    ELSE IF ~z3.watering THEN
        IF shouldTurnOn(z3, pct, ms)
        THEN RelayOn(z3, pin, ms, "water_on") ELSE RelayKeep(z3, pin, "idle")
    ELSE
        IF shouldTurnOff(z3, pct, nowv)
        THEN RelayOff(z3, pin, ms, "water_off") ELSE RelayKeep(z3, pin, "hold")

zoneStep(z, pin, adc, pct, nowv, ms) ==
    LET z1 == [z EXCEPT !.lastSampleMs = nowv, !.lastAdc = adc]
        z2 == updateFault(z1, adc)
        z3 == [z2 EXCEPT !.lastMoistPercent = pct]
    IN
    IF z2.sensorFault THEN faultStop(z2, pin, ms)
    ELSE IF maxOnReached(z3, nowv) THEN RelayOff(z3, pin, ms, "max_stop")
    ELSE IF ~z3.watering THEN
        IF shouldTurnOn(z3, pct, ms)
        THEN RelayOn(z3, pin, ms, "water_on") ELSE RelayKeep(z3, pin, "idle")
    ELSE
        IF shouldTurnOff(z3, pct, nowv)
        THEN RelayOff(z3, pin, ms, "water_off") ELSE RelayKeep(z3, pin, "hold")

----------------------------------------------------------------------------
(* Actions *)

NoProbe == [fn |-> "none"]

\* Before setup(): the globals as initialised.  live is the zone whose soil
\* varies and whose calibration the operator adjusts; the other sensors
\* report steady wet soil.
Init ==
    /\ clock = 0
    /\ pc = "boot"
    /\ loopI = 0
    /\ now = 0
    /\ zone = [i \in Zones |-> ZoneInit]
    /\ DRY_ADC = [i \in Zones |-> DRY_ADC_INIT]
    /\ WET_ADC = [i \in Zones |-> WET_ADC_INIT]
    /\ relayPin = [i \in Zones |-> "unset"]
    /\ last = Step("init", 0, "")
    /\ everOn = [i \in Zones |-> FALSE]
    /\ live \in LiveChoices
    /\ probe = NoProbe
    /\ probeOut = NoProbe

\* setup(): delay(200), then setRelay(i, false) for every zone
Setup ==
    /\ pc = "boot"
    /\ clock' = (clock + SETUP_DELAY) % TimeWrap
    /\ zone' = [i \in Zones |-> setRelay(zone[i], FALSE, clock')]
    /\ relayPin' = [i \in Zones |-> RelayLevel(FALSE)]
    /\ pc' = "serial"
    /\ last' = Step("setup", 0, "")
    /\ UNCHANGED <<loopI, now, DRY_ADC, WET_ADC, everOn, live, probe, probeOut>>

handleSerial_Swapped(avail, line, dry, wet) ==
    IF ~avail THEN [dry |-> dry, wet |-> wet, out |-> ""]
    ELSE LET c == ParsedLines[live + 1][line] IN
         [dry |-> IF c.set = "WET" THEN [dry EXCEPT ![c.i] = c.val] ELSE dry,
          wet |-> IF c.set = "DRY" THEN [wet EXCEPT ![c.i] = c.val] ELSE wet,
          out |-> c.out]

\* handleSerial() with nothing available, and with a line available
handleSerial(avail, line, dry, wet) ==
    IF ~avail THEN [dry |-> dry, wet |-> wet, out |-> ""]
    ELSE LET c == ParsedLines[live + 1][line] IN
         [dry |-> IF c.set = "DRY" THEN [dry EXCEPT ![c.i] = c.val] ELSE dry,
          wet |-> IF c.set = "WET" THEN [wet EXCEPT ![c.i] = c.val] ELSE wet,
          out |-> c.out]

serialEffect_StatusStops(avail, line, dry, wet, zs, pins) ==
    LET r == handleSerial(avail, line, dry, wet) IN
    [dry |-> r.dry, wet |-> r.wet, out |-> r.out,
     zone |-> IF r.out = "STATUS" THEN [i \in Zones |-> setRelay(zs[i], FALSE, 0)] ELSE zs,
     pin |-> IF r.out = "STATUS" THEN [i \in Zones |-> RelayLevel(FALSE)] ELSE pins]

\* everything handleSerial() leaves behind: the calibration arrays, the response,
\* and zone[] and the relay pins, which it reads (STATUS) but never writes
serialEffect(avail, line, dry, wet, zs, pins) ==
    LET r == handleSerial(avail, line, dry, wet) IN
    [dry |-> r.dry, wet |-> r.wet, out |-> r.out, zone |-> zs, pin |-> pins]

\* loop() up to its for loop: handleSerial(), now = millis()
LoopSerial ==
    /\ pc = "serial"
    /\ \E avail \in BOOLEAN :
         \E line \in (IF avail THEN SerialLines(live + 1) ELSE {<<>>}) :
           LET r == serialEffect(avail, line, DRY_ADC, WET_ADC, zone, relayPin) IN
           /\ DRY_ADC' = r.dry
           /\ WET_ADC' = r.wet
           /\ zone' = r.zone
           /\ relayPin' = r.pin
    /\ last' = Step("serial", 0, "")
    /\ now' = clock
    /\ loopI' = 0
    /\ pc' = "zones"
    /\ UNCHANGED <<clock, everOn, live, probe, probeOut>>

\* one iteration of loop()'s for loop, zone i = loopI
LoopZone ==
    /\ pc = "zones"
    /\ LET i == loopI
           z == zone[i]
       IN
       IF ~sampleDue(z, now)
       THEN /\ last' = Step("zone", i, "skip")
            /\ UNCHANGED <<zone, relayPin, everOn>>
       ELSE \E burst \in (IF i = live THEN VaryingBursts ELSE SteadyBursts) :
              LET adc == MedianOfBurst[burst] IN
              /\ adc <= ADC_NEAR_MIN => z.faultMinCount < MaxRun
              /\ adc >= ADC_NEAR_MAX => z.faultMaxCount < MaxRun
              /\ \E pct \in adcToPercent(adc, DRY_ADC[i], WET_ADC[i]) :
                   LET r == zoneStep(z, relayPin[i], adc, pct, now, clock) IN
                   /\ zone' = [zone EXCEPT ![i] = r.z]
                   /\ relayPin' = [relayPin EXCEPT ![i] = r.pin]
                   /\ last' = Step("zone", i, r.ev)
                   /\ everOn' = [everOn EXCEPT ![i] = @ \/ r.ev = "water_on"]
    /\ IF loopI + 1 < ZONES
       THEN loopI' = loopI + 1 /\ pc' = "zones"
       ELSE loopI' = 0 /\ pc' = "serial"
    /\ UNCHANGED <<clock, now, DRY_ADC, WET_ADC, live, probe, probeOut>>

\* a unit of time passes
Tick ==
    /\ pc # "boot"
    /\ Elapsed(clock, now) < MaxLoopTime
    /\ clock' = (clock + 1) % TimeWrap
    /\ last' = Step("tick", 0, "")
    /\ UNCHANGED <<pc, loopI, now, zone, DRY_ADC, WET_ADC, relayPin, everOn, live, probe, probeOut>>

Next == Setup \/ LoopSerial \/ LoopZone \/ Tick

Spec == Init /\ [][Next]_vars

----------------------------------------------------------------------------
(* adcToPercent and readMedianAdc called on their own, on arguments drawn   *)
(* from bounded sets                                                        *)

\* raw, dry and wet values 0 .. PercentRange, beside the readings and
\* calibration points below
PercentRange == 6
\* free leading readings of a stream handed to readMedianAdc
StreamPrefix == 4

ProbeBase ==
    /\ clock = 0
    /\ pc = "probe"
    /\ loopI = 0
    /\ now = 0
    /\ zone = [i \in Zones |-> ZoneInit]
    /\ DRY_ADC = [i \in Zones |-> DRY_ADC_INIT]
    /\ WET_ADC = [i \in Zones |-> WET_ADC_INIT]
    /\ relayPin = [i \in Zones |-> "unset"]
    /\ last = Step("init", 0, "")
    /\ everOn = [i \in Zones |-> FALSE]
    /\ live = 0
    /\ probeOut = NoProbe

ProbeUnchanged ==
    UNCHANGED <<clock, pc, loopI, now, zone, DRY_ADC, WET_ADC, relayPin, last, everOn, live, probe>>

PercentAdcs == (0 .. PercentRange) \cup {1399, 1400, 1401, 3199, 3200, 3201, 4095, 65535}
PercentRefs == (0 .. PercentRange) \cup {1400, 3200, 5000, LONG_MAX}

InitPercent ==
    /\ ProbeBase
    /\ probe \in [fn : {"adcToPercent"}, adc : PercentAdcs, dry : PercentRefs, wet : PercentRefs]

ProbePercent ==
    /\ probe.fn = "adcToPercent"
    /\ probeOut = NoProbe
    /\ \E v \in adcToPercent(probe.adc, probe.dry, probe.wet) :
         probeOut' = [fn |-> "adcToPercent", value |-> v]
    /\ ProbeUnchanged

SpecPercent == InitPercent /\ [][ProbePercent]_vars

MedianVals == {10, 2000, 4095}
\* the readings after the free prefix
StreamTail(k) == ((k * 7) % 5) * 1000
MedianStreams ==
    {[k \in 1 .. 15 |-> IF k <= StreamPrefix THEN pre[k] ELSE StreamTail(k)] :
        pre \in [1 .. StreamPrefix -> MedianVals]}

InitMedian ==
    /\ ProbeBase
    /\ probe \in [fn : {"readMedianAdc"}, stream : MedianStreams, samples : 0 .. 255]

ProbeMedian ==
    /\ probe.fn = "readMedianAdc"
    /\ probeOut = NoProbe
    /\ LET r == readMedianAdc(probe.stream, probe.samples) IN
       probeOut' = [fn |-> "readMedianAdc", value |-> r.value, reads |-> r.reads]
    /\ ProbeUnchanged

SpecMedian == InitMedian /\ [][ProbeMedian]_vars

\* states handleSerial() is called in: after boot, and with zone `live`
\* watering, its neighbour faulted and every reference different
WateringZone ==
    [ZoneInit EXCEPT !.watering = TRUE, !.lastSampleMs = 3, !.wateringStartMs = 2,
                     !.lastWateringEndMs = 1, !.lastMoistPercent = 20, !.lastAdc = 2840]
FaultedZone ==
    [ZoneInit EXCEPT !.lastSampleMs = 3, !.lastWateringEndMs = 1, !.faultMaxCount = FAULT_COUNT_LIMIT,
                     !.sensorFault = TRUE, !.lastAdc = 4095]
SerialPreStates(lv) ==
    {[zone |-> [i \in Zones |-> ZoneInit],
      pin |-> [i \in Zones |-> RelayLevel(FALSE)],
      dry |-> [i \in Zones |-> DRY_ADC_INIT],
      wet |-> [i \in Zones |-> WET_ADC_INIT]],
     [zone |-> [i \in Zones |-> IF i = lv THEN WateringZone
                                ELSE IF i = (lv + 1) % ZONES THEN FaultedZone ELSE ZoneInit],
      pin |-> [i \in Zones |-> RelayLevel(i = lv)],
      dry |-> [i \in Zones |-> 3000 + i],
      wet |-> [i \in Zones |-> 1500 - i]]}

InitSerial ==
    /\ clock = 3
    /\ pc = "probe"
    /\ loopI = 0
    /\ now = 3
    /\ last = Step("init", 0, "")
    /\ everOn = [i \in Zones |-> FALSE]
    /\ live \in Zones
    /\ probeOut = NoProbe
    /\ \E st \in SerialPreStates(live) :
         /\ zone = st.zone
         /\ relayPin = st.pin
         /\ DRY_ADC = st.dry
         /\ WET_ADC = st.wet
         /\ \E c \in ProbeCommands(live + 1) :
              probe = [fn |-> "handleSerial", cmd |-> c, pre |-> st]

\* handleSerial() with the line of probe.cmd available
ProbeSerial ==
    /\ probe.fn = "handleSerial"
    /\ probeOut = NoProbe
    /\ LET r == serialEffect(TRUE, probe.cmd.line, DRY_ADC, WET_ADC, zone, relayPin) IN
       /\ DRY_ADC' = r.dry
       /\ WET_ADC' = r.wet
       /\ zone' = r.zone
       /\ relayPin' = r.pin
       /\ probeOut' = [fn |-> "handleSerial", out |-> r.out]
    /\ UNCHANGED <<clock, pc, loopI, now, last, everOn, live, probe>>

SpecSerial == InitSerial /\ [][ProbeSerial]_vars

\* times the window test is tried on: 0 .. WindowRange
WindowRange == 120

InitWindow ==
    /\ ProbeBase
    /\ probe \in [fn : {"InTimeWindow"}, ms : 0 .. WindowRange]

\* the window test of wateringAllowedNow() with USE_TIME_WINDOW set
ProbeWindow ==
    /\ probe.fn = "InTimeWindow"
    /\ probeOut = NoProbe
    /\ probeOut' = [fn |-> "InTimeWindow", value |-> InTimeWindow(probe.ms)]
    /\ ProbeUnchanged

SpecWindow == InitWindow /\ [][ProbeWindow]_vars

----------------------------------------------------------------------------
(* Properties *)

Sampled(i) == last.op = "zone" /\ last.zone = i /\ last.ev # "skip"

\* C1: a zone whose fault flag is set is not watering once its pass is over, and
\* its relay pin is at the off level; the fault stops it in the same pass, also
\* before MIN_ON_TIME_MS has elapsed.
C1_FaultedNotWatering ==
    \A i \in Zones :
        zone[i].sensorFault => ~zone[i].watering /\ relayPin[i] = RelayLevel(FALSE)

C1_Witness ==
    \E i \in Zones :
        /\ last = Step("zone", i, "fault_stop")
        /\ zone[i].sensorFault /\ ~zone[i].watering
        /\ Elapsed(now, zone[i].wateringStartMs) < MIN_ON_TIME_MS

\* C2: sensorFault is a latch: no step of the sketch turns it from true to false.
C2_FaultLatched ==
    [][\A i \in Zones : zone[i].sensorFault => zone'[i].sensorFault]_vars

C2_Witness ==
    \E i \in Zones :
        /\ last = Step("zone", i, "fault")
        /\ zone[i].sensorFault
        /\ zone[i].faultMinCount = 0 /\ zone[i].faultMaxCount = 0

\* C3 as stated: a watering zone has never been on for more than MAX_ON_TIME_MS.
C3_OffByMaxOnTime ==
    \A i \in Zones :
        zone[i].watering => Elapsed(clock, zone[i].wateringStartMs) <= MAX_ON_TIME_MS

\* C3 amended: a zone is turned off at the latest in the first pass that samples it
\* with now - wateringStartMs >= MAX_ON_TIME_MS, whatever the moisture: a zone
\* left watering by a pass that sampled it (and did not just turn it on) has
\* now - wateringStartMs < MAX_ON_TIME_MS.
C3_OffAtFirstSampleAfterMax ==
    \A i \in Zones :
        (Sampled(i) /\ last.ev # "water_on" /\ zone[i].watering)
            => Elapsed(now, zone[i].wateringStartMs) < MAX_ON_TIME_MS

C3_Witness ==
    \E i \in Zones :
        /\ last = Step("zone", i, "max_stop")
        /\ zone[i].lastMoistPercent < ON_THRESHOLD
        /\ Elapsed(zone[i].lastWateringEndMs, zone[i].wateringStartMs) > MAX_ON_TIME_MS

\* C4: a zone is commanded on only when at least COOLDOWN_MS has elapsed since
\* the recorded lastWateringEndMs.
C4_CooldownBeforeOn ==
    \A i \in Zones :
        last = Step("zone", i, "water_on")
            => Elapsed(zone[i].wateringStartMs, zone[i].lastWateringEndMs) >= COOLDOWN_MS

\* C5: a zone that was never commanded on is commanded on by the first pass that
\* samples it without fault, with moisture below ON_THRESHOLD and the time
\* window open: such a pass never leaves it idle.
C5_NeverWateredNotHeldBack ==
    \A i \in Zones :
        (/\ last = Step("zone", i, "idle")
         /\ ~everOn[i]
         /\ zone[i].lastMoistPercent < ON_THRESHOLD
         /\ wateringAllowedNow(clock))
            => zone[i].watering

\* C6: the moisture-recovery rule turns a zone off only in a pass with
\* now - wateringStartMs >= MIN_ON_TIME_MS.
C6_NoRecoveryOffBeforeMinOn ==
    \A i \in Zones :
        last = Step("zone", i, "water_off")
            => Elapsed(now, zone[i].wateringStartMs) >= MIN_ON_TIME_MS

C6_Witness ==
    \E i \in Zones :
        /\ last = Step("zone", i, "hold")
        /\ zone[i].lastMoistPercent > OFF_THRESHOLD
        /\ Elapsed(now, zone[i].wateringStartMs) < MIN_ON_TIME_MS

\* C7: a watering zone has a non-zero wateringStartMs.
C7_WateringStartNonZero ==
    \A i \in Zones : zone[i].watering => zone[i].wateringStartMs # 0

\* adcToPercent's product does not overflow long on these arguments
NoOverflow(adc, dry) == Abs(adc - dry) <= LONG_MAX \div 100

\* C8: adcToPercent(raw, dry, wet) is 0 at raw = dry and beyond dry, 100 at
\* raw = wet and beyond wet, and 0 whenever dry = wet, for dry > wet and for
\* dry < wet.
C8_PercentBoundaries ==
    (probeOut.fn = "adcToPercent" /\ NoOverflow(probe.adc, probe.dry)) =>
        LET raw == probe.adc
            dry == probe.dry
            wet == probe.wet
            v == probeOut.value
        IN  /\ dry = wet => v = 0
            /\ (dry # wet /\ raw = dry) => v = 0
            /\ (dry # wet /\ raw = wet) => v = 100
            /\ (dry > wet /\ raw > dry) => v = 0
            /\ (dry > wet /\ raw < wet) => v = 100
            /\ (dry < wet /\ raw < dry) => v = 0
            /\ (dry < wet /\ raw > wet) => v = 100

C8_Witness ==
    /\ probeOut.fn = "adcToPercent"
    /\ probe.dry < probe.wet /\ probe.adc > probe.wet
    /\ probe.dry = 1400 /\ probe.wet = 3200
    /\ probeOut.value = 100

\* adcToPercent returns a value in 0 .. 100 on every argument, also when its
\* product overflows
PercentResultInRange ==
    probeOut.fn = "adcToPercent" => probeOut.value \in 0 .. 100

\* C9: lastMoistPercent of every zone is in 0 .. 100.
C9_MoistPercentInRange ==
    \A i \in Zones : zone[i].lastMoistPercent \in 0 .. 100

C9_Witness ==
    \E i \in Zones :
        /\ Sampled(i) /\ last.ev \notin {"fault", "fault_stop"}
        /\ DRY_ADC[i] < WET_ADC[i]
        /\ zone[i].lastAdc = 4095
        /\ zone[i].lastMoistPercent = OFF_THRESHOLD

\* v is the element at index n \div 2 (from 0) of the first n readings, sorted
IsMedian(v, stream, n) ==
    /\ \E k \in 1 .. n : stream[k] = v
    /\ Cardinality({k \in 1 .. n : stream[k] < v}) <= n \div 2
    /\ Cardinality({k \in 1 .. n : stream[k] <= v}) >= (n \div 2) + 1

\* C10: readMedianAdc works with an odd count n in 3 .. 15 (3 below 3, the next
\* odd for an even count, 15 above 15), takes n readings and returns their
\* median, whatever their order.
C10_MedianOfClampedCount ==
    probeOut.fn = "readMedianAdc" =>
        LET s == probe.samples
            n == probeOut.reads
        IN  /\ n % 2 = 1 /\ n >= 3 /\ n <= 15
            /\ s < 3 => n = 3
            /\ (s >= 3 /\ s <= 15 /\ s % 2 = 1) => n = s
            /\ (s >= 3 /\ s < 15 /\ s % 2 = 0) => n = s + 1
            /\ s > 15 => n = 15
            /\ IsMedian(probeOut.value, probe.stream, n)

C10_Witness ==
    /\ probeOut.fn = "readMedianAdc"
    /\ probe.samples = 254 /\ probeOut.reads = 15
    /\ probe.stream[1] = 4095 /\ probe.stream[2] = 10 /\ probe.stream[3] = 4095
    /\ probeOut.value = 2000

\* C11: processing a command (STATUS, SHOWCAL, CAL, unknown or malformed) leaves
\* every field of every zone and every relay pin as it was; only DRY_ADC or
\* WET_ADC can differ afterwards.
C11_CommandsLeaveZones ==
    probeOut.fn = "handleSerial" =>
        zone = probe.pre.zone /\ relayPin = probe.pre.pin

C11_Witness ==
    /\ probeOut.fn = "handleSerial"
    /\ probe.cmd.form = "STATUS" /\ probeOut.out = "STATUS"
    /\ zone[live].watering /\ relayPin[live] = RelayLevel(TRUE)
    /\ zone[(live + 1) % ZONES].sensorFault

\* the responses that report an error
ErrorResponses ==
    {"Unknown command", "CAL format error", "Zone index must be 1-4",
     "Invalid value", "Specify DRY or WET"}

\* C12: a malformed or invalid command is answered with an error message and
\* changes no calibration reference and no zone state.
C12_BadCommandsRejected ==
    (probeOut.fn = "handleSerial" /\ probe.cmd.form = "BAD") =>
        /\ probeOut.out \in ErrorResponses
        /\ DRY_ADC = probe.pre.dry /\ WET_ADC = probe.pre.wet
        /\ zone = probe.pre.zone /\ relayPin = probe.pre.pin

\* C13: CAL Z n DRY v with 1 <= n <= ZONES and v > 0 sets DRY_ADC[n-1] to v and
\* leaves WET_ADC and the other zones' DRY_ADC alone; CAL Z n WET v likewise
\* sets only WET_ADC[n-1].
C13_CalSetsOneReference ==
    (probeOut.fn = "handleSerial" /\ probe.cmd.form \in {"DRY", "WET"}) =>
        LET c == probe.cmd
            i == c.n - 1
        IN  /\ c.form = "DRY" =>
                /\ DRY_ADC = [probe.pre.dry EXCEPT ![i] = c.v]
                /\ WET_ADC = probe.pre.wet
            /\ c.form = "WET" =>
                /\ WET_ADC = [probe.pre.wet EXCEPT ![i] = c.v]
                /\ DRY_ADC = probe.pre.dry

C13_Witness ==
    /\ probeOut.fn = "handleSerial"
    /\ probe.cmd.form = "DRY" /\ probe.cmd.n = ZONES /\ probe.cmd.v = 65535
    /\ probe.cmd.line[2] = "c"
    /\ DRY_ADC[ZONES - 1] = 65535 /\ probe.pre.dry[ZONES - 1] = 3000 + (ZONES - 1)
    /\ DRY_ADC[0] = 3000 /\ WET_ADC = probe.pre.wet

C15_FaultAtRunLimit ==
    [][\A i \in Zones :
        Sampled(i)' =>
            LET adc == zone'[i].lastAdc
                z == zone[i]
                z2 == zone'[i]
            IN  /\ z2.faultMinCount = IF adc <= ADC_NEAR_MIN THEN z.faultMinCount + 1 ELSE 0
                /\ z2.faultMaxCount = IF adc >= ADC_NEAR_MAX THEN z.faultMaxCount + 1 ELSE 0
                /\ (~z.sensorFault /\ z2.sensorFault) =>
                        \/ z2.faultMinCount = FAULT_COUNT_LIMIT
                        \/ z2.faultMaxCount = FAULT_COUNT_LIMIT
                /\ ~z2.sensorFault =>
                        /\ z2.faultMinCount < FAULT_COUNT_LIMIT
                        /\ z2.faultMaxCount < FAULT_COUNT_LIMIT]_vars

C15_Witness ==
    \E i \in Zones :
        /\ last.op = "zone" /\ last.zone = i /\ last.ev \in {"fault", "fault_stop"}
        /\ zone[i].sensorFault
        /\ zone[i].lastAdc = 4095
        /\ zone[i].faultMaxCount = FAULT_COUNT_LIMIT /\ zone[i].faultMinCount = 0

\* the test of cooldownPassed at time ms
CooldownCheck(z, ms) ==
    z.lastWateringEndMs = 0 \/ Elapsed(ms, z.lastWateringEndMs) >= COOLDOWN_MS

\* C16: a zone is commanded on only in a sampled pass in which it was not
\* watering, is not faulted, has a percentage below ON_THRESHOLD, passes the
\* cooldown check and the time window permits; and in every such pass it is
\* commanded on and wateringStartMs is recorded.
C16_TurnOnConditions ==
    [][\A i \in Zones :
        LET z == zone[i]
            z2 == zone'[i]
            may == /\ Sampled(i)'
                   /\ ~z.watering
                   /\ ~z2.sensorFault
                   /\ z2.lastMoistPercent < ON_THRESHOLD
                   /\ CooldownCheck(z, clock)
                   /\ wateringAllowedNow(clock)
        IN  /\ (~z.watering /\ z2.watering) => may
            /\ may => /\ z2.watering
                      /\ z2.wateringStartMs = clock
                      /\ relayPin'[i] = RelayLevel(TRUE)
                      /\ last'.ev = "water_on"]_vars

C16_Witness ==
    \E i \in Zones :
        /\ last = Step("zone", i, "water_on")
        /\ zone[i].watering /\ ~zone[i].sensorFault
        /\ zone[i].lastMoistPercent < ON_THRESHOLD
        /\ zone[i].wateringStartMs = clock
        /\ zone[i].lastWateringEndMs # 0
        /\ Elapsed(clock, zone[i].lastWateringEndMs) >= COOLDOWN_MS

\* a dry zone left off by a pass because the cooldown check fails
HeldBackByCooldown ==
    \E i \in Zones :
        /\ last = Step("zone", i, "idle")
        /\ ~zone[i].sensorFault /\ ~zone[i].watering
        /\ zone[i].lastMoistPercent < ON_THRESHOLD
        /\ everOn[i]
        /\ ~CooldownCheck(zone[i], clock)

\* with the time window enabled, watering is allowed exactly in the hours
\* 5 .. 9 and 17 .. 21 of the demo clock, both ends included
WindowIsTheTwoRanges ==
    probeOut.fn = "InTimeWindow" =>
        (probeOut.value <=> ((probe.ms \div DEMO_HOUR_MS) % 24) \in ((5 .. 9) \cup (17 .. 21)))

\* C17: a sampled pass over a watering zone that is not faulted, with
\* MIN_ON_TIME_MS <= now - wateringStartMs < MAX_ON_TIME_MS, turns the zone off
\* if and only if the percentage is above OFF_THRESHOLD.
C17_RecoveryOffIffAbove ==
    [][\A i \in Zones :
        (/\ Sampled(i)'
         /\ zone[i].watering
         /\ ~zone'[i].sensorFault
         /\ Elapsed(now, zone[i].wateringStartMs) >= MIN_ON_TIME_MS
         /\ Elapsed(now, zone[i].wateringStartMs) < MAX_ON_TIME_MS)
            => (~zone'[i].watering <=> zone'[i].lastMoistPercent > OFF_THRESHOLD)]_vars

C17_Witness ==
    \E i \in Zones :
        /\ last = Step("zone", i, "hold")
        /\ zone[i].watering
        /\ zone[i].lastMoistPercent = OFF_THRESHOLD
        /\ Elapsed(now, zone[i].wateringStartMs) >= MIN_ON_TIME_MS

StopEvents == {"fault_stop", "max_stop", "water_off"}

C19_SkipAndOrder ==
    [][(pc = "zones" /\ last'.op = "zone") =>
        LET i == loopI IN
        /\ last'.zone = i
        /\ now' = now
        /\ Elapsed(now, zone[i].lastSampleMs) < SAMPLE_INTERVAL_MS =>
                (last'.ev = "skip" /\ zone' = zone /\ relayPin' = relayPin)
        /\ Elapsed(now, zone[i].lastSampleMs) >= SAMPLE_INTERVAL_MS =>
                (last'.ev # "skip" /\ zone'[i].lastSampleMs = now)
        /\ \A j \in Zones \ {i} : zone'[j] = zone[j] /\ relayPin'[j] = relayPin[j]
        /\ i + 1 < ZONES => (pc' = "zones" /\ loopI' = i + 1)
        /\ i + 1 = ZONES => pc' = "serial"]_vars

C19_Witness ==
    \E i \in Zones :
        /\ last = Step("zone", i, "skip")
        /\ zone[i].watering
        /\ zone[i].lastSampleMs = now

\* C20: a faulted zone is never commanded on, and no pass changes its
\* lastMoistPercent, wateringStartMs or lastWateringEndMs; the pass that sets
\* the fault changes lastWateringEndMs only if the zone was watering.
C20_FaultedIsTerminal ==
    [][\A i \in Zones :
        LET z == zone[i]
            z2 == zone'[i]
        IN  /\ z.sensorFault =>
                /\ ~z2.watering /\ relayPin'[i] = RelayLevel(FALSE)
                /\ z2.lastMoistPercent = z.lastMoistPercent
                /\ z2.wateringStartMs = z.wateringStartMs
                /\ z2.lastWateringEndMs = z.lastWateringEndMs
            /\ (~z.sensorFault /\ z2.sensorFault) =>
                /\ ~z2.watering /\ relayPin'[i] = RelayLevel(FALSE)
                /\ z2.lastMoistPercent = z.lastMoistPercent
                /\ z2.wateringStartMs = z.wateringStartMs
                /\ z2.lastWateringEndMs # z.lastWateringEndMs => (z.watering /\ z2.lastWateringEndMs = clock)]_vars

C20_Witness ==
    \E i \in Zones :
        /\ last = Step("zone", i, "fault")
        /\ zone[i].sensorFault /\ ~zone[i].watering
        /\ zone[i].lastAdc = 3200 /\ zone[i].lastSampleMs = now
        /\ zone[i].faultMinCount = 0 /\ zone[i].faultMaxCount = 0
        /\ everOn[i]

====
